---- MODULE Spec2Model ----
(***************************************************************************)
(* Model of src/SpotifyAPITest.py: the SpotifyAPITester checklist runner   *)
(* (run_all_tests, the six test_* checks, print_summary), quick_test and   *)
(* the __main__ dispatch.                                                   *)
(*                                                                         *)
(* The process environment, the spotipy constructors and the remote calls  *)
(* are the program's inputs.  A remote response is modelled by its shape,  *)
(* i.e. by exactly what the code inspects of it: whether the call raises,  *)
(* whether the value is falsy, whether the key the code indexes is there,  *)
(* whether the item list is empty, and whether the fields the code reads   *)
(* of the first item are there.  Console output never raises.              *)
(***************************************************************************)
EXTENDS Integers, Sequences, FiniteSets, TLC

VARIABLES
    environ,    \* os.environ as os.getenv sees it once load_dotenv has returned
    pc,         \* position in the program: "main", "tests", "summary", "done",
                \* "quick", "quick_done", and "any" for a tester driven by a caller
    idx,        \* run_all_tests: index into tests of the next check to invoke
    q,          \* test_search_functionality: index of the query being issued, 0 outside the loop
    results,    \* self.results
    sp,         \* self.sp : "None" or "client"
    calls,      \* run_all_tests: the methods invoked so far, in order
    ncalls,     \* number of method calls made by the caller driving pc = "any"
    returned,   \* latest outcome of each check: "notcalled", "True", "False", "None", "raised"
    everTrue,   \* the checks some call of which returned True
    last,       \* the latest check call: its name, what it observed, the state before it, its outcome
    summary,    \* what print_summary printed
    quick       \* quick_test: its return value and the external calls it made

vars == <<environ, pc, idx, q, results, sp, calls, ncalls, returned, everTrue, last, summary, quick>>

\* Number of method calls a caller driving the tester directly makes.
MaxCalls == 3

-----------------------------------------------------------------------------
(* Process environment *)

EnvNames == {"CLIENT_ID", "SPOTIFY_CLIENT_ID", "CLIENT_SECRET", "SPOTIFY_CLIENT_SECRET"}

\* os.getenv(name): None ("unset"), "" ("empty") or a non-empty string ("value")
EnvValues == {"unset", "empty", "value"}

\* Python truthiness of an os.getenv result
Truthy(v) == v = "value"

\* Python's  a or b
PyOr(a, b) == IF Truthy(a) THEN a ELSE b

client_id(e) == PyOr(e["CLIENT_ID"], e["SPOTIFY_CLIENT_ID"])

client_secret(e) == PyOr(e["CLIENT_SECRET"], e["SPOTIFY_CLIENT_SECRET"])

\* load_dotenv() returns or raises (unreadable or undecodable .env file)
LoadOutcomes == {"ok", "raise"}

\* SpotifyClientCredentials(...) then spotipy.Spotify(...): either may raise
ConstructOutcomes == {"ok", "auth_raises", "client_raises"}

-----------------------------------------------------------------------------
(* Remote responses, by shape *)

\* sp.search(..., limit=1):
\*   "raise"   the call raises
\*   "none"    None                      "empty"   {}
\*   "nokey"   a non-empty dict without the '<type>s' key
\*   "noitems" {'<type>s': {'items': []}}
\*   "partial" one item that lacks a field the code reads of it
\*   "full"    one item with every field the code reads
SearchResp == {"raise", "none", "empty", "nokey", "noitems", "partial", "full"}

\* sp.playlist(id): raises, None, {}, a playlist lacking a field read, a complete one
PlaylistResp == {"raise", "none", "empty", "partial", "full"}

\* sp.playlist_tracks(id, limit=3): raises, None, dict without 'items', items == [],
\* items whose track lacks a field read, complete items
TracksResp == {"raise", "none", "nokey", "noitems", "partial", "full"}

\* sp.audio_features([id]): raises, [], [None], [features lacking a field], [features]
FeaturesResp == {"raise", "emptylist", "null", "partial", "full"}

\* A method call on self.sp: on None it raises AttributeError, else the remote answers
SpCall(handle, resp) == IF handle = "None" THEN "raise" ELSE resp

\* Python truthiness of a response object
TruthyResp(r) == r \notin {"none", "empty", "null", "emptylist"}

\* '<type>s' in results / 'items' in tracks
HasKey(r) == r \in {"noitems", "partial", "full"}

\* len(results['<type>s']['items'])
NumItems(r) == IF r \in {"partial", "full"} THEN 1 ELSE 0

\* every field the code reads of the object (or of its first item) is there
Readable(r) == r = "full"

-----------------------------------------------------------------------------
(* SpotifyAPITester *)

Keys == {"environment", "authentication", "api_connection", "playlist_access",
         "search_functionality"}

\* __init__: self.results
InitResults == [k \in Keys |-> FALSE]

\* __init__: self.sp
InitSp == "None"

\* d[k] = v on a Python dict
Put(d, k, v) == [x \in (DOMAIN d) \cup {k} |-> IF x = k THEN v ELSE d[x]]

\* what a check leaves behind: return value ("raised" when an exception escapes it),
\* self.results and self.sp
Outcome(r, res, handle) == [ret |-> r, results |-> res, sp |-> handle]

\* mutant: the secret is not looked at
test_environment_variables_id_only(e, res, handle, load) ==
    IF load = "raise" THEN Outcome("raised", res, handle)
    ELSE IF Truthy(client_id(e))
         THEN Outcome("True", Put(res, "environment", TRUE), handle)
         ELSE Outcome("False", res, handle)

test_environment_variables(e, res, handle, load) ==
    IF load = "raise" THEN Outcome("raised", res, handle)
    ELSE IF Truthy(client_id(e)) /\ Truthy(client_secret(e))
         THEN Outcome("True", Put(res, "environment", TRUE), handle)
         ELSE Outcome("False", res, handle)

\* mutant: success is recorded before the constructions are attempted
test_authentication_recorded_first(e, res, handle, construct) ==
    IF construct = "ok"
    THEN Outcome("True", Put(res, "authentication", TRUE), "client")
    ELSE Outcome("False", Put(res, "authentication", TRUE), handle)

test_authentication(e, res, handle, construct) ==
    IF construct = "ok"
    THEN Outcome("True", Put(res, "authentication", TRUE), "client")
    ELSE Outcome("False", res, handle)

\* mutant: the first item is never indexed, so an empty track list passes
test_api_connection_unindexed(res, handle, resp) ==
    LET r == SpCall(handle, resp) IN
    IF r = "raise" THEN Outcome("False", res, handle)
    ELSE IF TruthyResp(r) /\ HasKey(r)
         THEN Outcome("True", Put(res, "api_connection", TRUE), handle)
         ELSE Outcome("False", res, handle)

\* mutant: no try/except around the search call
test_api_connection_no_try(res, handle, resp) ==
    LET r == SpCall(handle, resp) IN
    IF r = "raise" THEN Outcome("raised", res, handle)
    ELSE IF TruthyResp(r) /\ HasKey(r)
         THEN IF NumItems(r) > 0 /\ Readable(r)
              THEN Outcome("True", Put(res, "api_connection", TRUE), handle)
              ELSE Outcome("raised", res, handle)
         ELSE Outcome("False", res, handle)

\* mutant: a failing call writes False into the mapping
test_api_connection_writes_false(res, handle, resp) ==
    LET r == SpCall(handle, resp) IN
    IF r # "raise" /\ TruthyResp(r) /\ HasKey(r) /\ NumItems(r) > 0 /\ Readable(r)
    THEN Outcome("True", Put(res, "api_connection", TRUE), handle)
    ELSE Outcome("False", Put(res, "api_connection", FALSE), handle)

test_api_connection(res, handle, resp) ==
    LET r == SpCall(handle, resp) IN
    IF r = "raise" THEN Outcome("False", res, handle)
    ELSE IF TruthyResp(r) /\ HasKey(r)
         THEN IF NumItems(r) > 0 /\ Readable(r)
              THEN Outcome("True", Put(res, "api_connection", TRUE), handle)
              ELSE Outcome("False", res, handle)     \* IndexError / KeyError, caught
         ELSE Outcome("False", res, handle)

\* the sample-track printing of test_playlist_access: TRUE iff it raises
SampleTracksRaise(t) ==
    \/ t = "raise"
    \/ TruthyResp(t) /\ HasKey(t) /\ NumItems(t) > 0 /\ ~Readable(t)

\* mutant: success is recorded and returned right after the playlist fetch
test_playlist_access_recorded_early(res, handle, pl, tr) ==
    LET p == SpCall(handle, pl) IN
    IF p = "raise" THEN Outcome("False", res, handle)
    ELSE IF TruthyResp(p)
         THEN Outcome("True", Put(res, "playlist_access", TRUE), handle)
         ELSE Outcome("None", res, handle)

test_playlist_access(res, handle, pl, tr) ==
    LET p == SpCall(handle, pl) IN
    IF p = "raise" THEN Outcome("False", res, handle)
    ELSE IF TruthyResp(p)
         THEN IF ~Readable(p) THEN Outcome("False", res, handle)
              ELSE IF SampleTracksRaise(SpCall(handle, tr))
                   THEN Outcome("False", res, handle)
                   ELSE Outcome("True", Put(res, "playlist_access", TRUE), handle)
         ELSE Outcome("None", res, handle)           \* falls off the end of the function

\* search_queries: artist, track, playlist, album
NumQueries == 4

\* one iteration of the for loop of test_search_functionality: TRUE iff it raises
\* (the search call itself, or printing the first item of a non-empty item list)
QueryRaises(handle, resp) ==
    LET r == SpCall(handle, resp) IN
    \/ r = "raise"
    \/ TruthyResp(r) /\ HasKey(r) /\ NumItems(r) > 0 /\ ~Readable(r)

\* test_search_functionality at query i, the remote answering resp: the loop goes on
\* (ended = FALSE), or the check ends with out
test_search_functionality(res, handle, i, resp) ==
    IF QueryRaises(handle, resp)
    THEN [ended |-> TRUE, out |-> Outcome("False", res, handle)]
    ELSE IF i < NumQueries
         THEN [ended |-> FALSE, out |-> Outcome("None", res, handle)]
         ELSE [ended |-> TRUE,
               out |-> Outcome("True", Put(res, "search_functionality", TRUE), handle)]

\* mutant: a successful audio-features check is recorded in the mapping
test_audio_features_recorded(res, handle, resp, feat) ==
    LET r == SpCall(handle, resp) IN
    IF r = "raise" THEN Outcome("False", res, handle)
    ELSE IF ~TruthyResp(r) THEN Outcome("None", res, handle)
    ELSE IF ~HasKey(r) THEN Outcome("False", res, handle)
    ELSE IF NumItems(r) = 0 THEN Outcome("None", res, handle)
    ELSE IF ~Readable(r) THEN Outcome("False", res, handle)
    ELSE LET f == SpCall(handle, feat) IN
         IF f \in {"raise", "emptylist"} THEN Outcome("False", res, handle)
         ELSE IF ~TruthyResp(f) THEN Outcome("None", res, handle)
         ELSE IF ~Readable(f) THEN Outcome("False", res, handle)
         ELSE Outcome("True", Put(res, "audio_features", TRUE), handle)

test_audio_features(res, handle, resp, feat) ==
    LET r == SpCall(handle, resp) IN
    IF r = "raise" THEN Outcome("False", res, handle)
    ELSE IF ~TruthyResp(r) THEN Outcome("None", res, handle)
    ELSE IF ~HasKey(r) THEN Outcome("False", res, handle)        \* KeyError 'tracks'
    ELSE IF NumItems(r) = 0 THEN Outcome("None", res, handle)
    ELSE IF ~Readable(r) THEN Outcome("False", res, handle)      \* KeyError 'id'
    ELSE LET f == SpCall(handle, feat) IN
         IF f \in {"raise", "emptylist"} THEN Outcome("False", res, handle)
         ELSE IF ~TruthyResp(f) THEN Outcome("None", res, handle)
         ELSE IF ~Readable(f) THEN Outcome("False", res, handle)
         ELSE Outcome("True", res, handle)

\* sum(self.results.values()) over the keys in S
RECURSIVE SumValues(_, _)
SumValues(d, S) ==
    IF S = {} THEN 0
    ELSE LET k == CHOOSE x \in S : TRUE
         IN (IF d[k] THEN 1 ELSE 0) + SumValues(d, S \ {k})

print_summary(res) ==
    LET passed == SumValues(res, DOMAIN res)
        total  == Cardinality(DOMAIN res)
    IN [printed |-> TRUE, passed |-> passed, total |-> total,
        rows |-> res, banner |-> IF passed = total THEN "success" ELSE "troubleshoot"]

\* run_all_tests: the tests list
tests == <<"test_environment_variables", "test_authentication", "test_api_connection",
           "test_playlist_access", "test_search_functionality", "test_audio_features">>

Checks == {tests[i] : i \in 1..Len(tests)}

\* mutant: no try/except around test(), an escaping exception ends run_all_tests
run_all_tests_next_uncaught(i, r) ==
    IF r = "raised" THEN [pc |-> "done", idx |-> i + 1]
    ELSE IF i < Len(tests) THEN [pc |-> "tests", idx |-> i + 1]
    ELSE [pc |-> "summary", idx |-> i + 1]

\* run_all_tests: where control goes after tests[i] ended with r; an exception
\* escaping the check is caught and the loop goes on
run_all_tests_next(i, r) ==
    IF i < Len(tests) THEN [pc |-> "tests", idx |-> i + 1]
    ELSE [pc |-> "summary", idx |-> i + 1]

-----------------------------------------------------------------------------
(* quick_test *)

\* mutant: credentials count as missing only when both are missing
quick_test_both_missing(e, load, construct, resp) ==
    IF load = "raise" THEN [ret |-> "False", ext |-> <<"load_dotenv">>]
    ELSE IF ~Truthy(client_id(e)) /\ ~Truthy(client_secret(e))
         THEN [ret |-> "False", ext |-> <<"load_dotenv">>]
    ELSE IF construct = "auth_raises"
         THEN [ret |-> "False", ext |-> <<"load_dotenv", "SpotifyClientCredentials">>]
    ELSE IF construct = "client_raises"
         THEN [ret |-> "False",
               ext |-> <<"load_dotenv", "SpotifyClientCredentials", "Spotify">>]
    ELSE [ret |-> IF resp # "raise" /\ TruthyResp(resp) THEN "True" ELSE "False",
          ext |-> <<"load_dotenv", "SpotifyClientCredentials", "Spotify", "search">>]

quick_test(e, load, construct, resp) ==
    IF load = "raise" THEN [ret |-> "False", ext |-> <<"load_dotenv">>]
    ELSE IF ~Truthy(client_id(e)) \/ ~Truthy(client_secret(e))
         THEN [ret |-> "False", ext |-> <<"load_dotenv">>]
    ELSE IF construct = "auth_raises"
         THEN [ret |-> "False", ext |-> <<"load_dotenv", "SpotifyClientCredentials">>]
    ELSE IF construct = "client_raises"
         THEN [ret |-> "False",
               ext |-> <<"load_dotenv", "SpotifyClientCredentials", "Spotify">>]
    ELSE [ret |-> IF resp # "raise" /\ TruthyResp(resp) THEN "True" ELSE "False",
          ext |-> <<"load_dotenv", "SpotifyClientCredentials", "Spotify", "search">>]

-----------------------------------------------------------------------------
(* State machine *)

NoCall == [op |-> "none", obs |-> <<>>, pre |-> InitResults, presp |-> InitSp, ret |-> "notcalled"]

NoSummary == [printed |-> FALSE, passed |-> 0, total |-> 0, rows |-> InitResults,
              banner |-> "none"]

NoQuick == [ret |-> "notcalled", ext |-> <<>>]

InitCommon ==
    /\ environ \in [EnvNames -> EnvValues]
    /\ idx = 1
    /\ q = 0
    /\ results = InitResults
    /\ sp = InitSp
    /\ calls = <<>>
    /\ ncalls = 0
    /\ returned = [c \in Checks |-> "notcalled"]
    /\ everTrue = {}
    /\ last = NoCall
    /\ summary = NoSummary
    /\ quick = NoQuick

\* the program started from the command line
Init == InitCommon /\ pc = "main"

\* a SpotifyAPITester constructed by a caller that invokes its methods itself
InitAny == InitCommon /\ pc = "any"

\* __main__: "quick" selects quick_test, anything else the full suite
Main ==
    /\ pc = "main"
    /\ \E argv \in {<<>>, <<"quick">>, <<"other">>} :
        pc' = IF Len(argv) > 0 /\ argv[1] = "quick" THEN "quick" ELSE "tests"
    /\ UNCHANGED <<environ, idx, q, results, sp, calls, ncalls, returned, everTrue, last,
                   summary, quick>>

QuickTest ==
    /\ pc = "quick"
    /\ \E load \in LoadOutcomes, construct \in ConstructOutcomes, resp \in SearchResp :
        quick' = quick_test(environ, load, construct, resp)
    /\ pc' = "quick_done"
    /\ UNCHANGED <<environ, idx, q, results, sp, calls, ncalls, returned, everTrue, last,
                   summary>>

\* the check named c is the one to invoke now
CanCall(c) ==
    /\ q = 0
    /\ \/ pc = "tests" /\ idx \in 1..Len(tests) /\ tests[idx] = c
       \/ pc = "any" /\ ncalls < MaxCalls

\* check c was invoked, observed obs and ended with out
Invoke(c, obs, out) ==
    /\ results' = out.results
    /\ sp' = out.sp
    /\ returned' = [returned EXCEPT ![c] = out.ret]
    /\ everTrue' = IF out.ret = "True" THEN everTrue \cup {c} ELSE everTrue
    /\ last' = [op |-> c, obs |-> obs, pre |-> results, presp |-> sp, ret |-> out.ret]
    /\ IF pc = "tests"
       THEN /\ calls' = Append(calls, c)
            /\ pc' = run_all_tests_next(idx, out.ret).pc
            /\ idx' = run_all_tests_next(idx, out.ret).idx
            /\ UNCHANGED ncalls
       ELSE /\ ncalls' = ncalls + 1
            /\ UNCHANGED <<pc, idx, calls>>
    /\ UNCHANGED <<environ, summary, quick>>

\* what a call on self.sp yields: nothing remote is contacted through an unset handle
Remote(S) == IF sp = "None" THEN {"raise"} ELSE S

TestEnvironmentVariables ==
    /\ CanCall("test_environment_variables")
    /\ \E load \in LoadOutcomes :
        Invoke("test_environment_variables", <<load>>,
               test_environment_variables(environ, results, sp, load))
    /\ UNCHANGED q

TestAuthentication ==
    /\ CanCall("test_authentication")
    /\ \E construct \in ConstructOutcomes :
        Invoke("test_authentication", <<construct>>,
               test_authentication(environ, results, sp, construct))
    /\ UNCHANGED q

TestApiConnection ==
    /\ CanCall("test_api_connection")
    /\ \E resp \in Remote(SearchResp) :
        Invoke("test_api_connection", <<resp>>, test_api_connection(results, sp, resp))
    /\ UNCHANGED q

TestPlaylistAccess ==
    /\ CanCall("test_playlist_access")
    /\ \E pl \in Remote(PlaylistResp) :
        \E tr \in (IF pl = "full" THEN TracksResp ELSE {"uncalled"}) :
            Invoke("test_playlist_access", <<pl, tr>>,
                   test_playlist_access(results, sp, pl, tr))
    /\ UNCHANGED q

\* test_search_functionality is entered: the header is printed, the loop starts
TestSearchFunctionality ==
    /\ CanCall("test_search_functionality")
    /\ q' = 1
    /\ UNCHANGED <<environ, pc, idx, results, sp, calls, ncalls, returned, everTrue, last,
                   summary, quick>>

\* test_search_functionality issues query q; on the last query, or on an exception,
\* the check ends
SearchQuery ==
    /\ q \in 1..NumQueries
    /\ \E resp \in Remote(SearchResp) :
        LET step == test_search_functionality(results, sp, q, resp) IN
        IF step.ended
        THEN /\ Invoke("test_search_functionality", <<resp>>, step.out)
             /\ q' = 0
        ELSE /\ q' = q + 1
             /\ UNCHANGED <<environ, pc, idx, results, sp, calls, ncalls, returned,
                            everTrue, last, summary, quick>>

TestAudioFeatures ==
    /\ CanCall("test_audio_features")
    /\ \E resp \in Remote(SearchResp) :
        \E feat \in (IF resp = "full" THEN FeaturesResp ELSE {"uncalled"}) :
            Invoke("test_audio_features", <<resp, feat>>,
                   test_audio_features(results, sp, resp, feat))
    /\ UNCHANGED q

PrintSummary ==
    /\ q = 0
    /\ \/ pc = "summary"
       \/ pc = "any" /\ ncalls < MaxCalls
    /\ summary' = print_summary(results)
    /\ IF pc = "summary"
       THEN /\ calls' = Append(calls, "print_summary")
            /\ pc' = "done"
            /\ UNCHANGED ncalls
       ELSE /\ ncalls' = ncalls + 1
            /\ UNCHANGED <<pc, calls>>
    /\ UNCHANGED <<environ, idx, q, results, sp, returned, everTrue, last, quick>>

Check ==
    \/ TestEnvironmentVariables
    \/ TestAuthentication
    \/ TestApiConnection
    \/ TestPlaylistAccess
    \/ TestSearchFunctionality
    \/ SearchQuery
    \/ TestAudioFeatures

Next == Main \/ QuickTest \/ Check \/ PrintSummary

NextAny == Check \/ PrintSummary

Spec == Init /\ [][Next]_vars

SpecAny == InitAny /\ [][NextAny]_vars

-----------------------------------------------------------------------------
(* Properties *)

\* the order run_all_tests is to follow
Expected == tests \o <<"print_summary">>

\* a non-empty client id and a non-empty client secret are present under one of
\* their two names
HasId == environ["CLIENT_ID"] = "value" \/ environ["SPOTIFY_CLIENT_ID"] = "value"

HasSecret == environ["CLIENT_SECRET"] = "value" \/ environ["SPOTIFY_CLIENT_SECRET"] = "value"

\* the check that owns an entry of the result mapping
CheckOf(k) == IF k = "environment" THEN "test_environment_variables"
              ELSE IF k = "authentication" THEN "test_authentication"
              ELSE IF k = "api_connection" THEN "test_api_connection"
              ELSE IF k = "playlist_access" THEN "test_playlist_access"
              ELSE "test_search_functionality"

\* the entries of the mapping other than k are as they were before the latest call
OthersUnchanged(k) ==
    /\ DOMAIN results = DOMAIN last.pre
    /\ \A x \in DOMAIN results : x # k => results[x] = last.pre[x]

\* C1: in one call of run_all_tests the six checks are invoked once each in the
\* declared order, whatever the earlier checks returned or raised, and print_summary
\* is invoked once, after the sixth check; the run never stops in between.
C1_RunAllOrder ==
    /\ pc \in {"tests", "summary", "done"} =>
          /\ Len(calls) <= Len(Expected)
          /\ calls = SubSeq(Expected, 1, Len(calls))
    /\ pc = "tests" => Len(calls) = idx - 1 /\ idx <= Len(tests)
    /\ pc = "summary" => calls = tests
    /\ pc = "done" => calls = Expected /\ summary.printed
    /\ pc \in {"tests", "summary"} => ENABLED Next

C1_Witness ==
    /\ pc = "done"
    /\ calls = Expected
    /\ returned["test_environment_variables"] = "raised"
    /\ returned["test_authentication"] = "True"
    /\ returned["test_api_connection"] = "False"
    /\ returned["test_playlist_access"] = "None"
    /\ returned["test_search_functionality"] = "True"

\* C2: print_summary reports passed = the number of true entries among the five
\* recorded checks and total = 5; test_audio_features leaves the mapping as it was,
\* whatever it returns.
C2_SummaryCounts ==
    /\ pc = "done" =>
          /\ summary.passed = Cardinality({k \in Keys : results[k]})
          /\ summary.total = 5
          /\ DOMAIN summary.rows = Keys
    /\ last.op = "test_audio_features" => results = last.pre

C2_Witness ==
    /\ pc = "done"
    /\ returned["test_audio_features"] = "True"
    /\ summary.passed = 3
    /\ summary.total = 5

QuickExt == {quick.ext[i] : i \in 1..Len(quick.ext)}

\* C4: quick_test returns False whenever the client id or the client secret is
\* missing or empty under both names, without constructing the authenticator or the
\* client and without searching.
C4_QuickMissingCredentials ==
    (pc = "quick_done" /\ ~(HasId /\ HasSecret)) =>
        /\ quick.ret = "False"
        /\ QuickExt \cap {"SpotifyClientCredentials", "Spotify", "search"} = {}

C4_Witness ==
    /\ pc = "quick_done"
    /\ HasId
    /\ ~HasSecret
    /\ quick.ext = <<"load_dotenv">>
    /\ quick.ret = "False"

\* C5: test_authentication returns True and records authentication = True unless
\* one of the two constructions raises; then it returns False, authentication stays
\* False and self.sp is still None.
C5_Authentication ==
    last.op = "test_authentication" =>
        /\ last.ret = "True" <=> last.obs = <<"ok">>
        /\ last.ret = "True" => results["authentication"] = TRUE /\ sp = "client"
        /\ last.obs # <<"ok">> =>
              /\ last.ret = "False"
              /\ results["authentication"] = FALSE
              /\ sp = "None"
        /\ OthersUnchanged("authentication")

C5_Witness ==
    /\ last.op = "test_authentication"
    /\ last.obs = <<"client_raises">>
    /\ last.ret = "False"
    /\ sp = "None"

\* the latest call succeeded: it returned True and its entry is True
Succeeded(k) == last.ret = "True" /\ results[k] = TRUE

\* C6 as stated: test_playlist_access succeeds iff the playlist fetch returns a
\* non-empty object, whatever playlist_tracks does and whatever fields the playlist has.
C6_Original ==
    last.op = "test_playlist_access" =>
        (Succeeded("playlist_access") <=> last.obs[1] \in {"partial", "full"})

\* C6 amended: test_playlist_access succeeds iff the playlist fetch returns a
\* non-empty object and nothing raises after it: the playlist has every field that
\* is printed, playlist_tracks does not raise and every sample track printed has its
\* fields; otherwise the mapping is left as it was.
C6_PlaylistAccess ==
    last.op = "test_playlist_access" =>
        /\ Succeeded("playlist_access") <=>
              /\ last.obs[1] = "full"
              /\ last.obs[2] \in {"none", "nokey", "noitems", "full"}
        /\ last.ret # "True" => results = last.pre
        /\ OthersUnchanged("playlist_access")

C6_Witness ==
    /\ last.op = "test_playlist_access"
    /\ last.obs = <<"full", "raise">>
    /\ last.ret = "False"
    /\ results["playlist_access"] = FALSE

\* C7 as stated: test_api_connection succeeds iff the response holds a track list
\* with at least one item.
C7_Original ==
    last.op = "test_api_connection" =>
        (Succeeded("api_connection") <=> last.obs[1] \in {"partial", "full"})

\* C7 amended: test_api_connection succeeds iff the response holds a track list with
\* at least one item and the name, first artist and duration of the first item can
\* be read; a response without 'tracks', an empty response and an empty track list
\* each yield False with the mapping left as it was.
C7_ApiConnection ==
    last.op = "test_api_connection" =>
        /\ Succeeded("api_connection") <=> last.obs[1] = "full"
        /\ last.obs[1] \in {"nokey", "none", "empty", "noitems"} =>
              last.ret = "False" /\ results = last.pre
        /\ last.ret # "True" => last.ret = "False" /\ results = last.pre
        /\ OthersUnchanged("api_connection")

C7_Witness ==
    /\ last.op = "test_api_connection"
    /\ last.obs = <<"noitems">>
    /\ last.ret = "False"
    /\ results["api_connection"] = FALSE
    /\ sp = "client"

\* C8: every check returns True or False on every path: the return value is never
\* None, also when a remote call returns an empty or falsy result without raising.
C8_ReturnsBoolean ==
    \A c \in Checks : returned[c] # "None"

\* C9: in a run of run_all_tests where test_authentication fails, the four later
\* checks are still invoked, no exception escapes them, none returns True, and
\* api_connection, playlist_access and search_functionality are False in the mapping
\* print_summary reads.
C9_AfterFailedAuthentication ==
    (pc = "done" /\ returned["test_authentication"] = "False") =>
        /\ \A c \in {"test_api_connection", "test_playlist_access",
                     "test_search_functionality", "test_audio_features"} :
              returned[c] \notin {"notcalled", "raised", "True"}
        /\ \A k \in {"api_connection", "playlist_access", "search_functionality"} :
              summary.rows[k] = FALSE
        /\ calls = Expected

C9_Witness ==
    /\ pc = "done"
    /\ returned["test_environment_variables"] = "True"
    /\ returned["test_authentication"] = "False"
    /\ returned["test_audio_features"] = "False"
    /\ summary.passed = 1

\* C10: the result mapping always has exactly the five keys; an entry starts False,
\* only ever goes from False to True, is written only by its own check and only when
\* that check returns True; so an entry is True exactly when some call of its check
\* returned True.
C10_ResultMapping ==
    /\ [](/\ DOMAIN results = Keys
          /\ \A k \in Keys : results[k] \in BOOLEAN
          /\ \A k \in Keys : results[k] <=> (CheckOf(k) \in everTrue))
    /\ [][\A k \in Keys :
              /\ results[k] => results'[k]
              /\ results'[k] # results[k] =>
                    last'.op = CheckOf(k) /\ last'.ret = "True"]_vars

C10_Witness ==
    /\ pc = "any"
    /\ last.op = "test_api_connection"
    /\ last.ret = "False"
    /\ last.pre["api_connection"] = TRUE
    /\ results["api_connection"] = TRUE

====
